---- MODULE Spec2Model ----
(***************************************************************************)
(* Model of the anthill-message membership and messaging core:             *)
(*   src/src/model/history.py  (MessagesHistoryModel, the `messages` table) *)
(*   src/src/model/group.py    (GroupsModel, `groups`, `group_participants`)*)
(*                                                                         *)
(* Every coroutine is cut at its `yield`s: one action per awaited storage  *)
(* call or callback, so that calls of different processes interleave where *)
(* tornado lets them interleave.                                            *)
(***************************************************************************)
EXTENDS Integers, Sequences, FiniteSets, TLC

VARIABLES
    messages,       \* rows of table `messages` (committed state)
    nextMessageId,  \* AUTO_INCREMENT of `messages`.`message_id`
    groups,         \* rows of table `groups`
    nextGroupId,    \* AUTO_INCREMENT of `groups`.`group_id`
    participants,   \* rows of table `group_participants`
    nextParticipationId, \* AUTO_INCREMENT of `participation_id`
    clusterAccounts,\* Cluster Assignment Service: slots held by accounts
    queue,          \* notifications handed to app.message_queue.add_message
    held,           \* the GroupAdapters callers hold (from get_group, find_group)
    pc,             \* per process: the yield its current call is suspended at
    call,           \* per process: arguments and locals of its call
    outcome         \* per process: how its last call ended

vars == <<messages, nextMessageId, groups, nextGroupId, participants,
          nextParticipationId, clusterAccounts, queue, held, pc, call, outcome>>

groupVars == <<groups, nextGroupId, participants, nextParticipationId,
               clusterAccounts, queue, held>>

(***************************************************************************)
(* Bounds of the model.                                                    *)
(***************************************************************************)
MaxMessages == 2        \* message rows ever inserted

Procs == {1, 2}         \* concurrently running callers

Gamespaces == {1}
Accounts == {1, 2}

(***************************************************************************)
(* Strings are sequences of one-character strings, so that concatenation,  *)
(* str() and LIKE are computed character by character.                     *)
(***************************************************************************)
CLASS_USER == <<"u">>
CLASS_GROUP == <<"c">>

REMOVE_DELIVERED == "remove_delivered"

DeliveryFlagSets == {{}, {REMOVE_DELIVERED}}

Digit(d) == CASE d = 0 -> "0" [] d = 1 -> "1" [] d = 2 -> "2" [] d = 3 -> "3"
              [] d = 4 -> "4" [] d = 5 -> "5" [] d = 6 -> "6" [] d = 7 -> "7"
              [] d = 8 -> "8" [] d = 9 -> "9"

\* Python str(n) of a non-negative int: its decimal digits.
RECURSIVE Str(_)
Str(n) == IF n < 10 THEN <<Digit(n)>> ELSE Str(n \div 10) \o <<Digit(n % 10)>>

\* SQL `s LIKE pattern`: % matches any run of characters, _ exactly one.
RECURSIVE Like(_, _)
Like(s, pattern) ==
    IF pattern = <<>> THEN s = <<>>
    ELSE IF Head(pattern) = "%"
         THEN Like(s, Tail(pattern)) \/ (s # <<>> /\ Like(Tail(s), pattern))
         ELSE /\ s # <<>>
              /\ (Head(pattern) = "_" \/ Head(pattern) = Head(s))
              /\ Like(Tail(s), Tail(pattern))

Min(S) == CHOOSE x \in S : \A y \in S : x <= y

NoCall == [op |-> "none"]

(***************************************************************************)
(* The `messages` table (history.py).                                      *)
(***************************************************************************)
MessageRow(id, gamespace, sender, recipient_class, recipient_key, flags, delivered) ==
    [message_id |-> id, gamespace_id |-> gamespace, message_sender |-> sender,
     message_recipient_class |-> recipient_class, message_recipient |-> recipient_key,
     message_flags |-> flags, message_delivered |-> delivered]

MessageIds(rows) == {m.message_id : m \in rows}

\* Row locks held by the open transactions of read_incoming_messages
\* (SELECT ... FOR UPDATE keeps the selected rows locked until commit/rollback).
InTransaction(p) == pc[p] \in {"ri_receive", "ri_update", "ri_delete", "ri_commit"}

LockedBy(p) == IF InTransaction(p) THEN call[p].batch ELSE {}

LockedByOthers(p) == UNION {LockedBy(q) : q \in Procs \ {p}}

Locked == UNION {LockedBy(q) : q \in Procs}

\* add_message: INSERT INTO `messages`.
InsertMessage(rows, id, gamespace, sender, recipient_class, recipient_key, flags, delivered) ==
    rows \cup {MessageRow(id, gamespace, sender, recipient_class, recipient_key,
                          flags, delivered)}

\* add_message has a single yield (the INSERT), so it is one step of some
\* caller; a payload that is no dict (MessageError 400) or a DatabaseError
\* (MessageError 500) leaves the table as it is.
AddMessage(gamespace, sender, recipient_class, recipient_key, payload, flags, delivered) ==
    /\ nextMessageId <= MaxMessages
    /\ IF payload # "dict"
       THEN UNCHANGED <<messages, nextMessageId>>
       ELSE \/ /\ messages' = InsertMessage(messages, nextMessageId, gamespace, sender,
                                            recipient_class, recipient_key, flags, delivered)
               /\ nextMessageId' = nextMessageId + 1
            \/ UNCHANGED <<messages, nextMessageId>>
    /\ UNCHANGED <<pc, call, outcome, groupVars>>

\* list_incoming_messages: the rows of the recipient, newest first, cut at `limit`.
\* message_time is whatever the callers passed, so when the limit cuts the
\* result, any `limit` of the matching rows may be the newest: the operator
\* gives the set of results the query can return.
IncomingRows(rows, gamespace, recipient_class, recipient) ==
    {m \in rows : /\ m.message_recipient_class = recipient_class
                  /\ m.message_recipient = recipient
                  /\ m.gamespace_id = gamespace}

list_incoming_messages(rows, gamespace, recipient_class, recipient, limit) ==
    LET all == IncomingRows(rows, gamespace, recipient_class, recipient)
    IN  IF Cardinality(all) <= limit THEN {all}
        ELSE {r \in SUBSET all : Cardinality(r) = limit}

DefaultLimit == 100

\* delete_message: DELETE ... WHERE message_id AND gamespace_id.
DeleteMessageRows(rows, gamespace, message_id) ==
    {m \in rows : ~(m.message_id = message_id /\ m.gamespace_id = gamespace)}

DeleteMessage(gamespace, message_id) ==
    /\ message_id \notin Locked                 \* a locked row makes the DELETE wait
    /\ \/ messages' = DeleteMessageRows(messages, gamespace, message_id)
       \/ UNCHANGED messages                    \* DatabaseError -> MessageError(500)
    /\ UNCHANGED <<nextMessageId, pc, call, outcome, groupVars>>

(***************************************************************************)
(* read_incoming_messages (history.py 280-324), one action per yield.      *)
(***************************************************************************)
\* SELECT ... WHERE class, recipient, gamespace AND message_delivered=0 FOR UPDATE
UndeliveredRows(rows, gamespace, recipient_class, recipient) ==
    {m \in IncomingRows(rows, gamespace, recipient_class, recipient) :
        ~m.message_delivered}

\* Mutant of SelectForUpdateReturns: a plain SELECT, which waits for no lock.
SelectWithoutLock(p, ids) == TRUE

\* FOR UPDATE: the select returns only once no other transaction holds a lock
\* on a row it reads.
SelectForUpdateReturns(p, ids) == ids \cap LockedByOthers(p) = {}

ReadSelect(p, gamespace, recipient_class, recipient) ==
    LET ids == MessageIds(UndeliveredRows(messages, gamespace, recipient_class, recipient))
    IN  /\ pc[p] = "idle"
        /\ SelectForUpdateReturns(p, ids)
        /\ pc' = [pc EXCEPT ![p] = "ri_receive"]
        /\ call' = [call EXCEPT ![p] =
                [op |-> "read_incoming_messages", gamespace |-> gamespace,
                 recipient_class |-> recipient_class, recipient |-> recipient,
                 batch |-> ids, todo |-> ids, confirmed |-> {},
                 mark_delivered_ids |-> {}, remove_ids |-> {}]]
        /\ outcome' = [outcome EXCEPT ![p] = "running"]
        /\ UNCHANGED <<messages, nextMessageId, groupVars>>

\* The failed SELECT: DatabaseError -> MessageError(500), nothing locked.
ReadSelectFails(p, gamespace, recipient_class, recipient) ==
    /\ pc[p] = "idle"
    /\ call' = [call EXCEPT ![p] =
            [op |-> "read_incoming_messages", gamespace |-> gamespace,
             recipient_class |-> recipient_class, recipient |-> recipient,
             batch |-> {}, todo |-> {}, confirmed |-> {},
             mark_delivered_ids |-> {}, remove_ids |-> {}]]
    /\ outcome' = [outcome EXCEPT ![p] = "MessageError500"]
    /\ UNCHANGED <<messages, nextMessageId, pc, groupVars>>

MessageById(rows, id) == CHOOSE m \in rows : m.message_id = id

\* Mutant of Partition: a confirmed message is always marked, never removed.
PartitionIgnoresFlag(mark_delivered_ids, remove_ids, m, recv) ==
    IF recv
    THEN [mark |-> mark_delivered_ids \cup {m.message_id}, remove |-> remove_ids]
    ELSE [mark |-> mark_delivered_ids, remove |-> remove_ids]

\* Mutant of Partition: the receiver's answer is not looked at.
PartitionIgnoresReceiver(mark_delivered_ids, remove_ids, m, recv) ==
    IF REMOVE_DELIVERED \in m.message_flags
    THEN [mark |-> mark_delivered_ids, remove |-> remove_ids \cup {m.message_id}]
    ELSE [mark |-> mark_delivered_ids \cup {m.message_id}, remove |-> remove_ids]

\* The loop body, lines 297-302: [mark, remove] after the receiver answered
\* `recv` for message m.
Partition(mark_delivered_ids, remove_ids, m, recv) ==
    IF recv
    THEN IF REMOVE_DELIVERED \in m.message_flags
         THEN [mark |-> mark_delivered_ids, remove |-> remove_ids \cup {m.message_id}]
         ELSE [mark |-> mark_delivered_ids \cup {m.message_id}, remove |-> remove_ids]
    ELSE [mark |-> mark_delivered_ids, remove |-> remove_ids]

\* Mutant of Rollback: an auto-commit connection, whose executed statements stay.
RollbackKeepsStatements(rows, gamespace, marked, removed) ==
    {m \in {IF r.gamespace_id = gamespace /\ r.message_id \in marked
             THEN [r EXCEPT !.message_delivered = TRUE] ELSE r : r \in rows} :
        ~(m.gamespace_id = gamespace /\ m.message_id \in removed)}

\* What leaving the `with db.acquire(auto_commit=False)` block without
\* commit() leaves in the table: the statements of the transaction are undone.
Rollback(rows, gamespace, marked, removed) == rows

\* UPDATE ... SET message_delivered=1 WHERE gamespace_id AND message_id IN ...
\* then DELETE ... WHERE gamespace_id AND message_id IN ..., made durable by commit().
Commit(rows, gamespace, marked, removed) ==
    LET updated == {IF m.gamespace_id = gamespace /\ m.message_id \in marked
                    THEN [m EXCEPT !.message_delivered = TRUE] ELSE m : m \in rows}
    IN  {m \in updated : ~(m.gamespace_id = gamespace /\ m.message_id \in removed)}

\* The statements the open transaction of p has executed so far.
PendingMarked(p) ==
    IF pc[p] \in {"ri_delete", "ri_commit"} THEN call[p].mark_delivered_ids ELSE {}

PendingRemoved(p) == IF pc[p] = "ri_commit" THEN call[p].remove_ids ELSE {}

ReadAbort(p, error) ==
    /\ messages' = Rollback(messages, call[p].gamespace, PendingMarked(p), PendingRemoved(p))
    /\ pc' = [pc EXCEPT ![p] = "idle"]
    /\ outcome' = [outcome EXCEPT ![p] = error]
    /\ UNCHANGED <<nextMessageId, call, groupVars>>

\* recv = yield receiver(m), for the next message of the batch.
ReadReceive(p, recv) ==
    /\ pc[p] = "ri_receive"
    /\ call[p].todo # {}
    /\ LET id == Min(call[p].todo)
           m == MessageById(messages, id)
           lists == Partition(call[p].mark_delivered_ids, call[p].remove_ids, m, recv)
       IN  call' = [call EXCEPT ![p].todo = @ \ {id},
                                ![p].confirmed = IF recv THEN @ \cup {id} ELSE @,
                                ![p].mark_delivered_ids = lists.mark,
                                ![p].remove_ids = lists.remove]
    /\ UNCHANGED <<messages, nextMessageId, pc, outcome, groupVars>>

\* The receiver raises: the exception leaves the `with` block.
ReadReceiverRaises(p) ==
    /\ pc[p] = "ri_receive"
    /\ call[p].todo # {}
    /\ ReadAbort(p, "ReceiverError")

ReadLoopDone(p) ==
    /\ pc[p] = "ri_receive"
    /\ call[p].todo = {}
    /\ pc' = [pc EXCEPT ![p] = "ri_update"]
    /\ UNCHANGED <<messages, nextMessageId, call, outcome, groupVars>>

\* if mark_delivered_ids: yield db.query(UPDATE ...)
ReadUpdate(p) ==
    /\ pc[p] = "ri_update"
    /\ pc' = [pc EXCEPT ![p] = "ri_delete"]
    /\ UNCHANGED <<messages, nextMessageId, call, outcome, groupVars>>

ReadUpdateFails(p) ==
    /\ pc[p] = "ri_update"
    /\ call[p].mark_delivered_ids # {}
    /\ ReadAbort(p, "MessageError500")

\* if remove_ids: yield db.query(DELETE ...)
ReadDelete(p) ==
    /\ pc[p] = "ri_delete"
    /\ pc' = [pc EXCEPT ![p] = "ri_commit"]
    /\ UNCHANGED <<messages, nextMessageId, call, outcome, groupVars>>

ReadDeleteFails(p) ==
    /\ pc[p] = "ri_delete"
    /\ call[p].remove_ids # {}
    /\ ReadAbort(p, "MessageError500")

\* yield db.commit()
ReadCommit(p) ==
    /\ pc[p] = "ri_commit"
    /\ messages' = Commit(messages, call[p].gamespace,
                          PendingMarked(p), PendingRemoved(p))
    /\ pc' = [pc EXCEPT ![p] = "idle"]
    /\ outcome' = [outcome EXCEPT ![p] = "ok"]
    /\ UNCHANGED <<nextMessageId, call, groupVars>>

ReadCommitFails(p) ==
    /\ pc[p] = "ri_commit"
    /\ ReadAbort(p, "MessageError500")

(***************************************************************************)
(* Specification of the message store under concurrent callers.            *)
(***************************************************************************)
Recipients == {<<"1">>, <<"2">>}
Payloads == {"dict", "list"}

Init ==
    /\ messages = {}
    /\ nextMessageId = 1
    /\ groups = {}
    /\ nextGroupId = 1
    /\ participants = {}
    /\ nextParticipationId = 1
    /\ clusterAccounts = {}
    /\ queue = {}
    /\ held = {}
    /\ pc = [p \in Procs |-> "idle"]
    /\ call = [p \in Procs |-> NoCall]
    /\ outcome = [p \in Procs |-> "none"]

NextDelivery ==
    \/ \E gs \in Gamespaces, rcp \in Recipients, payload \in Payloads,
          flags \in DeliveryFlagSets :
            AddMessage(gs, 1, CLASS_USER, rcp, payload, flags, FALSE)
    \/ \E gs \in Gamespaces, id \in 1..MaxMessages : DeleteMessage(gs, id)
    \/ \E p \in Procs :
        \/ \E gs \in Gamespaces, rcp \in Recipients : ReadSelect(p, gs, CLASS_USER, rcp)
        \/ \E gs \in Gamespaces, rcp \in Recipients : ReadSelectFails(p, gs, CLASS_USER, rcp)
        \/ \E recv \in BOOLEAN : ReadReceive(p, recv)
        \/ ReadReceiverRaises(p)
        \/ ReadLoopDone(p)
        \/ ReadUpdate(p)
        \/ ReadUpdateFails(p)
        \/ ReadDelete(p)
        \/ ReadDeleteFails(p)
        \/ ReadCommit(p)
        \/ ReadCommitFails(p)

SpecDelivery == Init /\ [][NextDelivery]_vars

(***************************************************************************)
(* Claims about the delivery protocol.                                     *)
(***************************************************************************)
IsRead(p) == call[p].op = "read_incoming_messages"

\* The step in which the call of p commits, and the step in which it ends
\* without a commit.
ReadCommitted(p) == pc[p] = "ri_commit" /\ pc'[p] = "idle" /\ outcome'[p] = "ok"

ReadFailed(p) == InTransaction(p) /\ pc'[p] = "idle" /\ outcome'[p] # "ok"

\* Any step of the call of p.
ReadStep(p) == InTransaction(p) /\ (pc'[p] # pc[p] \/ call'[p] # call[p])

C2_OnlyConfirmedChange ==
    [][\A p \in Procs : ReadStep(p) =>
        /\ \A m \in messages \ messages' :
                ReadCommitted(p) /\ m.message_id \in call[p].confirmed
        /\ \A m \in messages' \ messages :
                /\ m.message_delivered
                /\ m.message_id \in call[p].confirmed
                /\ [m EXCEPT !.message_delivered = FALSE] \in messages]_vars

\* C2 witness: a committed call that marked a confirmed message delivered
\* while it left another message of its batch unconfirmed.
C2_Witness ==
    \E p \in Procs :
        /\ IsRead(p) /\ pc[p] = "idle" /\ outcome[p] = "ok"
        /\ \E id \in call[p].mark_delivered_ids :
                \E m \in messages : m.message_id = id /\ m.message_delivered
        /\ call[p].batch \ call[p].confirmed # {}

\* C3: a call that ends without a successful commit (the receiver raised, or
\* the UPDATE, the DELETE or the commit failed) leaves the table as it was.
C3_AllOrNothing ==
    [][\A p \in Procs : ReadFailed(p) => messages' = messages]_vars

\* C3 witness: a call failed after its receiver had confirmed a message for
\* marking and one for removal; both are still there, undelivered.
C3_Witness ==
    \E p \in Procs :
        /\ IsRead(p) /\ pc[p] = "idle" /\ outcome[p] = "MessageError500"
        /\ call[p].mark_delivered_ids # {}
        /\ call[p].remove_ids # {}
        /\ \A id \in call[p].confirmed :
                \E m \in messages : m.message_id = id /\ ~m.message_delivered

SameRecipient(p, q) ==
    /\ call[p].gamespace = call[q].gamespace
    /\ call[p].recipient_class = call[q].recipient_class
    /\ call[p].recipient = call[q].recipient

\* C4 as claimed: two calls for the same recipient are never open at the same
\* time (the select of the second waits for the end of the first).
C4_SelectWaitsForFirstCall ==
    \A p, q \in Procs :
        (p # q /\ InTransaction(p) /\ InTransaction(q)) => ~SameRecipient(p, q)

\* C4 as amended: a message in the batch of an open call exists and is
\* undelivered in the committed table (no other call has committed it as
\* delivered or removed), and two calls for the same recipient that are open
\* at the same time hold no message in common: one of them selected nothing.
C4_NoMessageHandedTwice ==
    /\ \A p \in Procs : InTransaction(p) =>
            \A id \in call[p].batch :
                \E m \in messages : m.message_id = id /\ ~m.message_delivered
    /\ \A p, q \in Procs :
            (p # q /\ InTransaction(p) /\ InTransaction(q) /\ SameRecipient(p, q))
                => (call[p].batch = {} \/ call[q].batch = {})

\* C4 witness: a call committed a message as delivered, and a later call for
\* the same recipient is open with a batch that leaves that message out.
C4_Witness ==
    \E p, q \in Procs :
        /\ p # q /\ IsRead(p) /\ pc[p] = "idle" /\ outcome[p] = "ok"
        /\ InTransaction(q) /\ SameRecipient(p, q)
        /\ call[q].batch # {}
        /\ \E id \in call[p].mark_delivered_ids :
                /\ id \notin call[q].batch
                /\ \E m \in IncomingRows(messages, call[q].gamespace,
                        call[q].recipient_class, call[q].recipient) :
                            m.message_id = id /\ m.message_delivered

(***************************************************************************)
(* The `groups` and `group_participants` tables (group.py).                *)
(***************************************************************************)
MaxGroups == 2          \* group rows ever inserted
MaxParticipations == 2  \* participation rows ever inserted

GroupKeys == {<<"g">>}
ClusterSizes == {1}
ClusterIds == {1, 2}
Roles == {"member", "owner"}
Notifies == {"none", "payload"}     \* notify=None, or a json dict

MESSAGE_PLAYER_JOINED == "player_joined"
MESSAGE_PLAYER_LEFT == "player_left"

\* GroupAdapter: what a caller holds of a group row.
GroupAdapter(row) ==
    [group_id |-> row.group_id, group_class |-> row.group_class, key |-> row.group_key,
     clustered |-> row.group_clustered, cluster_size |-> row.group_cluster_size]

\* Mutant of calculate_recipient: the cluster of the participation is ignored.
RecipientIsGroupKey(participation) == participation.group_key

\* GroupParticipationAdapter.calculate_recipient
calculate_recipient(participation) ==
    IF participation.cluster_id # 0
    THEN participation.group_key \o <<"-">> \o Str(participation.cluster_id)
    ELSE participation.group_key

\* The unique key of `groups`: (gamespace_id, group_class, group_key).
DuplicateGroup(rows, gamespace, group_class, key) ==
    \E g \in rows : /\ g.gamespace_id = gamespace
                    /\ g.group_class = group_class
                    /\ g.group_key = key

\* new_group: one INSERT; DuplicateError -> GroupExistsError, DatabaseError ->
\* GroupError, both leaving the table as it is.  The adapter of the new row is
\* from now on something a caller can hold (get_group, find_group, list_groups).
NewGroup(gamespace, group_class, key, clustered, cluster_size) ==
    /\ IF DuplicateGroup(groups, gamespace, group_class, key)
       THEN UNCHANGED <<groups, nextGroupId, held>>
       ELSE \/ LET row == [group_id |-> nextGroupId, gamespace_id |-> gamespace,
                           group_class |-> group_class, group_key |-> key,
                           group_clustered |-> clustered,
                           group_cluster_size |-> cluster_size]
               IN  /\ nextGroupId <= MaxGroups
                   /\ groups' = groups \cup {row}
                   /\ nextGroupId' = nextGroupId + 1
                   /\ held' = held \cup {[gamespace |-> gamespace,
                                          group |-> GroupAdapter(row)]}
            \/ UNCHANGED <<groups, nextGroupId, held>>
    /\ UNCHANGED <<messages, nextMessageId, participants, nextParticipationId,
                   clusterAccounts, queue, pc, call, outcome>>

\* get_group: the rows SELECTed by (group_id, gamespace_id); none is GroupNotFound.
get_group(rows, gamespace, group_id) ==
    {g \in rows : g.group_id = group_id /\ g.gamespace_id = gamespace}

\* delete_messages_like(gamespace, recipient_class, recipient_like):
\*   DELETE FROM messages WHERE message_recipient_class LIKE <recipient_class>
\*     AND message_recipient = <recipient_like> AND gamespace_id = <gamespace>
delete_messages_like(rows, gamespace, recipient_class, recipient_like) ==
    {m \in rows : ~(/\ Like(m.message_recipient_class, recipient_class)
                    /\ m.message_recipient = recipient_like
                    /\ m.gamespace_id = gamespace)}

(***************************************************************************)
(* delete_group (group.py 180-199): the message deletion, then the row.    *)
(***************************************************************************)
Running == "running"

DeleteGroupCall(p, gamespace_id, group) ==
    /\ pc[p] = "idle"
    /\ [gamespace |-> gamespace_id, group |-> group] \in held
    /\ call' = [call EXCEPT ![p] = [op |-> "delete_group", gamespace |-> gamespace_id,
                                    group |-> group, messages_deleted |-> FALSE]]
    /\ pc' = [pc EXCEPT ![p] = "dg_messages"]
    /\ outcome' = [outcome EXCEPT ![p] = Running]
    /\ UNCHANGED <<messages, nextMessageId, groupVars>>

\* Mutant of AfterMessageDeletion: the failure is swallowed and the row deleted.
AfterMessageDeletionIgnoresFailure(deleted) ==
    [pc |-> "dg_row", outcome |-> Running]

\* lines 186-192: MessageError from delete_messages_like -> GroupError(500),
\* else on to the DELETE of the row.
AfterMessageDeletion(deleted) ==
    IF deleted THEN [pc |-> "dg_row", outcome |-> Running]
    ELSE [pc |-> "idle",
          outcome |-> "delete_group: GroupError: Failed to delete group's messages"]

\* lines 186-190: yield self.history.delete_messages_like(gamespace_id,
\*                    group.group_class, group.key + "-%")
DeleteGroupMessages(p, deleted) ==
    /\ pc[p] = "dg_messages"
    /\ Locked = {}                 \* the DELETE waits for rows locked FOR UPDATE
    /\ messages' = IF deleted
                   THEN delete_messages_like(messages, call[p].gamespace,
                            call[p].group.group_class, call[p].group.key \o <<"-", "%">>)
                   ELSE messages
    /\ pc' = [pc EXCEPT ![p] = AfterMessageDeletion(deleted).pc]
    /\ outcome' = [outcome EXCEPT ![p] = AfterMessageDeletion(deleted).outcome]
    /\ call' = [call EXCEPT ![p] =
            IF AfterMessageDeletion(deleted).pc = "idle" THEN NoCall
            ELSE [@ EXCEPT !.messages_deleted = deleted]]
    /\ UNCHANGED <<nextMessageId, groupVars>>

\* DELETE FROM groups WHERE group_id AND gamespace_id
DeleteGroupRows(rows, gamespace, group_id) ==
    {g \in rows : ~(g.group_id = group_id /\ g.gamespace_id = gamespace)}

\* lines 192-199
DeleteGroupRow(p) ==
    /\ pc[p] = "dg_row"
    /\ \/ /\ groups' = DeleteGroupRows(groups, call[p].gamespace, call[p].group.group_id)
          /\ outcome' = [outcome EXCEPT ![p] = "delete_group: ok"]
       \/ /\ UNCHANGED groups                            \* DatabaseError
          /\ outcome' = [outcome EXCEPT ![p] =
                "delete_group: GroupError: Failed to delete a group"]
    /\ pc' = [pc EXCEPT ![p] = "idle"]
    /\ call' = [call EXCEPT ![p] = NoCall]
    /\ UNCHANGED <<messages, nextMessageId, nextGroupId, participants,
                   nextParticipationId, clusterAccounts, queue, held>>

(***************************************************************************)
(* Cluster Assignment Service (common.cluster.Cluster), by its contract:   *)
(* an account holds at most one slot per group, a cluster holds at most    *)
(* cluster_size accounts, a new cluster is created when all are full.      *)
(***************************************************************************)
ClusterSlots(slots, gamespace, group_id) ==
    {c \in slots : c.gamespace_id = gamespace /\ c.group_id = group_id}

ClusterMembers(slots, gamespace, group_id, cluster_id) ==
    {c \in ClusterSlots(slots, gamespace, group_id) : c.cluster_id = cluster_id}

get_cluster(slots, gamespace, account, group_id, cluster_size) ==
    LET mine == {c \in ClusterSlots(slots, gamespace, group_id) : c.account = account}
        ids  == {c.cluster_id : c \in ClusterSlots(slots, gamespace, group_id)}
        free == {i \in ids : Cardinality(ClusterMembers(slots, gamespace, group_id, i))
                                < cluster_size}
    IN  IF mine # {} THEN (CHOOSE c \in mine : TRUE).cluster_id
        ELSE IF free # {} THEN Min(free)
        ELSE Min({i \in 1..(Cardinality(ids) + 1) : i \notin ids})

leave_cluster(slots, gamespace, account, group_id) ==
    {c \in slots : ~(c.gamespace_id = gamespace /\ c.account = account
                     /\ c.group_id = group_id)}

(***************************************************************************)
(* Participation rows and their adapter.                                   *)
(***************************************************************************)
\* the local `participation` of a call before it is assigned
NoParticipation == [participation_id |-> "None"]

\* dict.get(key): None when the key is missing.
Get(data, key) == IF key \in DOMAIN data THEN data[key] ELSE "None"

\* GroupParticipationAdapter.__init__: the ids are kept as str(...).
GroupParticipationAdapter(data) ==
    [participation_id |-> Str(Get(data, "participation_id")),
     group_id |-> Str(Get(data, "group_id")),
     group_class |-> Get(data, "group_class"),
     group_key |-> Get(data, "group_key"),
     cluster_id |-> Get(data, "cluster_id"),
     account |-> Get(data, "participation_account"),
     role |-> Get(data, "participation_role")]

\* The unique key of `group_participants`: one row per (group_id, account).
DuplicateParticipation(rows, group_id, account) ==
    \E r \in rows : r.group_id = group_id /\ r.participation_account = account

\* Mutant of InsertParticipation: INSERT ... ON DUPLICATE KEY UPDATE, which
\* overwrites the role of the existing row and reports success.
InsertParticipationOverwrites(rows, row) ==
    IF DuplicateParticipation(rows, row.group_id, row.participation_account)
    THEN [error |-> "none",
          rows |-> {IF r.group_id = row.group_id
                       /\ r.participation_account = row.participation_account
                    THEN [r EXCEPT !.participation_role = row.participation_role]
                    ELSE r : r \in rows}]
    ELSE [error |-> "none", rows |-> rows \cup {row}]

\* lines 227-236: the INSERT, and DuplicateError -> UserAlreadyJoined.
InsertParticipation(rows, row) ==
    IF DuplicateParticipation(rows, row.group_id, row.participation_account)
    THEN [error |-> "join_group: UserAlreadyJoined", rows |-> rows]
    ELSE [error |-> "none", rows |-> rows \cup {row}]

\* find_group_participant: the rows SELECTed by (group_id, account, gamespace).
find_group_participant(rows, gamespace, group_id, account) ==
    {r \in rows : /\ r.group_id = group_id
                  /\ r.participation_account = account
                  /\ r.gamespace_id = gamespace}

\* Mutant of DeleteParticipation: the DELETE matches no row.
DeleteParticipationNoRow(rows, gamespace, participation_id) == rows

\* leave_group's DELETE ... WHERE gamespace_id AND participation_id, the id
\* being the str() the adapter keeps.
DeleteParticipation(rows, gamespace, participation_id) ==
    {r \in rows : ~(r.gamespace_id = gamespace
                    /\ Str(r.participation_id) = participation_id)}

Notification(gamespace, account, group_class, recipient, message_type) ==
    [gamespace |-> gamespace, sender |-> account, recipient_class |-> group_class,
     recipient |-> recipient, message_type |-> message_type]

(***************************************************************************)
(* join_group (group.py 214-258), one action per yield.                    *)
(***************************************************************************)
\* lines 216-225: the call; cluster_id is 0 unless the group is clustered.
JoinCall(p, gamespace, group, account, role, notify) ==
    /\ pc[p] = "idle"
    /\ [gamespace |-> gamespace, group |-> group] \in held
    /\ nextParticipationId <= MaxParticipations
    /\ call' = [call EXCEPT ![p] =
            [op |-> "join_group", gamespace |-> gamespace, group |-> group,
             account |-> account, role |-> role, notify |-> notify,
             cluster_id |-> 0, participation |-> NoParticipation]]
    /\ pc' = [pc EXCEPT ![p] = IF group.clustered THEN "jg_cluster" ELSE "jg_insert"]
    /\ outcome' = [outcome EXCEPT ![p] = Running]
    /\ UNCHANGED <<messages, nextMessageId, groupVars>>

\* Mutant of ClusterSizeArgument: the service default instead of the group's.
ClusterSizeDefault(group) == 1000

\* line 223: cluster_size=group.cluster_size
ClusterSizeArgument(group) == group.cluster_size

\* lines 221-223: cluster_id = yield self.cluster.get_cluster(...)
JoinGetCluster(p) ==
    /\ pc[p] = "jg_cluster"
    /\ \/ LET id == get_cluster(clusterAccounts, call[p].gamespace, call[p].account,
                                call[p].group.group_id,
                                ClusterSizeArgument(call[p].group))
          IN  /\ clusterAccounts' = clusterAccounts \cup
                    {[gamespace_id |-> call[p].gamespace,
                      group_id |-> call[p].group.group_id,
                      account |-> call[p].account, cluster_id |-> id]}
              /\ call' = [call EXCEPT ![p].cluster_id = id]
              /\ pc' = [pc EXCEPT ![p] = "jg_insert"]
              /\ UNCHANGED outcome
       \/ /\ outcome' = [outcome EXCEPT ![p] = "join_group: ClusterError"]
          /\ pc' = [pc EXCEPT ![p] = "idle"]
          /\ call' = [call EXCEPT ![p] = NoCall]
          /\ UNCHANGED clusterAccounts
    /\ UNCHANGED <<messages, nextMessageId, groups, nextGroupId, participants,
                   nextParticipationId, queue, held>>

\* The row the INSERT of lines 228-234 writes.
ParticipationRow(id, c) ==
    [participation_id |-> id,
     gamespace_id |-> c.gamespace, group_id |-> c.group.group_id,
     group_class |-> c.group.group_class, group_key |-> c.group.key,
     participation_account |-> c.account,
     participation_role |-> c.role, cluster_id |-> c.cluster_id]

\* lines 227-248: the INSERT and the adapter built from its arguments.
JoinInsert(p) ==
    /\ pc[p] = "jg_insert"
    /\ LET c == call[p]
           done == InsertParticipation(participants,
                                       ParticipationRow(nextParticipationId, c))
       IN  \/ /\ done.error = "none"
              /\ nextParticipationId <= MaxParticipations
              /\ participants' = done.rows
              /\ nextParticipationId' = nextParticipationId + 1
              /\ call' = [call EXCEPT ![p].participation =
                    GroupParticipationAdapter(
                        [participation_id |-> nextParticipationId,
                         group_id |-> c.group.group_id,
                         group_class |-> c.group.group_class,
                         group_key |-> c.group.key,
                         cluster_id |-> c.cluster_id,
                         account |-> c.account, role |-> c.role])]
              /\ pc' = [pc EXCEPT ![p] = "jg_bind"]
              /\ UNCHANGED outcome
           \/ /\ done.error # "none"
              /\ outcome' = [outcome EXCEPT ![p] = done.error]
              /\ pc' = [pc EXCEPT ![p] = "idle"]
              /\ call' = [call EXCEPT ![p] = NoCall]
              /\ UNCHANGED <<participants, nextParticipationId>>
           \/ /\ outcome' = [outcome EXCEPT ![p] =                 \* DatabaseError
                    "join_group: GroupError: Failed to join a group"]
              /\ pc' = [pc EXCEPT ![p] = "idle"]
              /\ call' = [call EXCEPT ![p] = NoCall]
              /\ UNCHANGED <<participants, nextParticipationId>>
    /\ UNCHANGED <<messages, nextMessageId, groups, nextGroupId,
                   clusterAccounts, queue, held>>

\* line 250: yield self.online.bind_account_to_group(account, participation)
JoinBind(p) ==
    /\ pc[p] = "jg_bind"
    /\ \/ /\ pc' = [pc EXCEPT ![p] = "jg_notify"]     \* bound, in the online service
          /\ UNCHANGED <<outcome, call>>
       \/ /\ outcome' = [outcome EXCEPT ![p] = "join_group: OnlineError"]
          /\ pc' = [pc EXCEPT ![p] = "idle"]
          /\ call' = [call EXCEPT ![p] = NoCall]
    /\ UNCHANGED <<messages, nextMessageId, groups, nextGroupId, participants,
                   nextParticipationId, clusterAccounts, queue, held>>

\* lines 252-258: the player_joined notification, and the return.
JoinNotify(p) ==
    /\ pc[p] = "jg_notify"
    /\ IF call[p].notify # "none"
       THEN \/ /\ queue' = queue \cup {Notification(call[p].gamespace, call[p].account,
                        call[p].group.group_class,
                        calculate_recipient(call[p].participation),
                        MESSAGE_PLAYER_JOINED)}
               /\ outcome' = [outcome EXCEPT ![p] = "join_group: ok"]
            \/ /\ outcome' = [outcome EXCEPT ![p] =
                        "join_group: MessageQueueError"]
               /\ UNCHANGED queue
       ELSE /\ outcome' = [outcome EXCEPT ![p] = "join_group: ok"]
            /\ UNCHANGED queue
    /\ pc' = [pc EXCEPT ![p] = "idle"]
    /\ call' = [call EXCEPT ![p] = NoCall]
    /\ UNCHANGED <<messages, nextMessageId, groups, nextGroupId, participants,
                   nextParticipationId, clusterAccounts, held>>

(***************************************************************************)
(* leave_group (group.py 291-318), one action per yield.                   *)
(***************************************************************************)
LeaveCall(p, gamespace, group, account, notify) ==
    /\ pc[p] = "idle"
    /\ [gamespace |-> gamespace, group |-> group] \in held
    /\ call' = [call EXCEPT ![p] =
            [op |-> "leave_group", gamespace |-> gamespace, group |-> group,
             account |-> account, notify |-> notify, participation |-> NoParticipation]]
    /\ pc' = [pc EXCEPT ![p] = "lg_find"]
    /\ outcome' = [outcome EXCEPT ![p] = Running]
    /\ UNCHANGED <<messages, nextMessageId, groupVars>>

\* The adapter of a row of `group_participants`.
RowAdapter(row) ==
    GroupParticipationAdapter([participation_id |-> row.participation_id,
                               group_id |-> row.group_id,
                               group_class |-> row.group_class,
                               group_key |-> row.group_key,
                               cluster_id |-> row.cluster_id,
                               participation_account |-> row.participation_account,
                               participation_role |-> row.participation_role])

\* Mutant of AfterLookup: a missing row is not an error; the call goes on with
\* a participation in cluster 0 that no row backs.
AfterLookupWithoutCheck(found, group, account) ==
    [pc |-> "lg_delete", outcome |-> Running,
     participation |->
        IF found = {}
        THEN GroupParticipationAdapter([participation_id |-> 0,
                group_id |-> group.group_id, group_class |-> group.group_class,
                group_key |-> group.key, cluster_id |-> 0,
                participation_account |-> account])
        ELSE RowAdapter(CHOOSE r \in found : TRUE)]

\* find_group_participant lines 333-336: no row raises GroupParticipantNotFound,
\* which leave_group (line 295) lets through.
AfterLookup(found, group, account) ==
    IF found = {}
    THEN [pc |-> "idle", outcome |-> "leave_group: GroupParticipantNotFound",
          participation |-> NoParticipation]
    ELSE [pc |-> "lg_delete", outcome |-> Running,
          participation |-> RowAdapter(CHOOSE r \in found : TRUE)]

\* line 295: participation = yield self.find_group_participant(...)
LeaveFind(p) ==
    /\ pc[p] = "lg_find"
    /\ \/ LET next == AfterLookup(
                        find_group_participant(participants, call[p].gamespace,
                                               call[p].group.group_id, call[p].account),
                        call[p].group, call[p].account)
          IN  /\ pc' = [pc EXCEPT ![p] = next.pc]
              /\ outcome' = [outcome EXCEPT ![p] = next.outcome]
              /\ call' = [call EXCEPT ![p] =
                    IF next.pc = "idle" THEN NoCall
                    ELSE [@ EXCEPT !.participation = next.participation]]
       \/ /\ pc' = [pc EXCEPT ![p] = "idle"]                       \* DatabaseError
          /\ outcome' = [outcome EXCEPT ![p] =
                "leave_group: GroupError: Failed to get group participant"]
          /\ call' = [call EXCEPT ![p] = NoCall]
    /\ UNCHANGED <<messages, nextMessageId, groupVars>>

\* lines 297-304: the DELETE by participation_id.
LeaveDelete(p) ==
    /\ pc[p] = "lg_delete"
    /\ \/ /\ participants' = DeleteParticipation(participants, call[p].gamespace,
                                call[p].participation.participation_id)
          /\ pc' = [pc EXCEPT ![p] = IF call[p].participation.cluster_id # 0
                                     THEN "lg_cluster" ELSE "lg_notify"]
          /\ UNCHANGED <<outcome, call>>
       \/ /\ outcome' = [outcome EXCEPT ![p] =                     \* DatabaseError
                "leave_group: GroupError: Failed to leave a group"]
          /\ pc' = [pc EXCEPT ![p] = "idle"]
          /\ call' = [call EXCEPT ![p] = NoCall]
          /\ UNCHANGED participants
    /\ UNCHANGED <<messages, nextMessageId, groups, nextGroupId, nextParticipationId,
                   clusterAccounts, queue, held>>

\* Mutant of AfterRelease: the ClusterError of leave_cluster is let through.
AfterReleaseSurfaces(released) ==
    IF released THEN [pc |-> "lg_notify", outcome |-> Running]
    ELSE [pc |-> "idle", outcome |-> "leave_group: ClusterError"]

\* lines 307-312: except ClusterError: pass
AfterRelease(released) == [pc |-> "lg_notify", outcome |-> Running]

\* lines 306-312: leave_cluster, its ClusterError swallowed.
LeaveCluster(p) ==
    /\ pc[p] = "lg_cluster"
    /\ \E released \in BOOLEAN :
        /\ IF released
           THEN clusterAccounts' = leave_cluster(clusterAccounts, call[p].gamespace,
                                        call[p].account, call[p].group.group_id)
           ELSE UNCHANGED clusterAccounts                          \* ClusterError
        /\ pc' = [pc EXCEPT ![p] = AfterRelease(released).pc]
        /\ outcome' = [outcome EXCEPT ![p] = AfterRelease(released).outcome]
        /\ call' = [call EXCEPT ![p] =
                IF AfterRelease(released).pc = "idle" THEN NoCall ELSE @]
    /\ UNCHANGED <<messages, nextMessageId, groups, nextGroupId, participants,
                   nextParticipationId, queue, held>>

\* lines 314-318: the player_left notification, and the return.
LeaveNotify(p) ==
    /\ pc[p] = "lg_notify"
    /\ IF call[p].notify # "none"
       THEN \/ /\ queue' = queue \cup {Notification(call[p].gamespace, call[p].account,
                        call[p].group.group_class,
                        calculate_recipient(call[p].participation),
                        MESSAGE_PLAYER_LEFT)}
               /\ outcome' = [outcome EXCEPT ![p] = "leave_group: ok"]
            \/ /\ outcome' = [outcome EXCEPT ![p] =
                        "leave_group: MessageQueueError"]
               /\ UNCHANGED queue
       ELSE /\ outcome' = [outcome EXCEPT ![p] = "leave_group: ok"]
            /\ UNCHANGED queue
    /\ pc' = [pc EXCEPT ![p] = "idle"]
    /\ call' = [call EXCEPT ![p] = NoCall]
    /\ UNCHANGED <<messages, nextMessageId, groups, nextGroupId, participants,
                   nextParticipationId, clusterAccounts, held>>

(***************************************************************************)
(* Specifications of the group directory (groups and their messages) and   *)
(* of the participation manager (joins and leaves).  SpecDirectory and     *)
(* SpecParticipation interleave the calls of the processes at their yields;*)
(* the Seq specifications run one call at a time.                          *)
(***************************************************************************)
Quiescent == \A p \in Procs : pc[p] = "idle"

OthersIdle(p) == \A q \in Procs \ {p} : pc[q] = "idle"

HeldGroups == {h.group : h \in held}

\* addressed to a group, to its cluster-partitioned recipients, to the
\* literal text of the group's LIKE pattern, and to somebody else
DirectoryRecipients ==
    UNION {{k, k \o <<"-", "%">>} \cup {k \o <<"-">> \o Str(c) : c \in ClusterIds}
            : k \in GroupKeys}

EnvDirectory ==
    \/ \E gs \in Gamespaces, key \in GroupKeys, clustered \in BOOLEAN,
          size \in ClusterSizes :
            NewGroup(gs, CLASS_GROUP, key, clustered, size)
    \/ \E gs \in Gamespaces, cls \in {CLASS_GROUP, CLASS_USER},
          rcp \in DirectoryRecipients :
            AddMessage(gs, 1, cls, rcp, "dict", {}, FALSE)

ProcDirectory(p) ==
    \/ \E gs \in Gamespaces, g \in HeldGroups : DeleteGroupCall(p, gs, g)
    \/ \E deleted \in BOOLEAN : DeleteGroupMessages(p, deleted)
    \/ DeleteGroupRow(p)

NextDirectory == EnvDirectory \/ \E p \in Procs : ProcDirectory(p)

SpecDirectory == Init /\ [][NextDirectory]_vars

NextDirectorySeq ==
    \/ Quiescent /\ EnvDirectory
    \/ \E p \in Procs : OthersIdle(p) /\ ProcDirectory(p)

SpecDirectorySeq == Init /\ [][NextDirectorySeq]_vars

EnvParticipation ==
    \E gs \in Gamespaces, key \in GroupKeys, clustered \in BOOLEAN,
       size \in ClusterSizes :
        NewGroup(gs, CLASS_GROUP, key, clustered, size)

ProcParticipation(p) ==
    \/ \E gs \in Gamespaces, g \in HeldGroups, a \in Accounts,
          role \in Roles, notify \in Notifies :
            JoinCall(p, gs, g, a, role, notify)
    \/ JoinGetCluster(p)
    \/ JoinInsert(p)
    \/ JoinBind(p)
    \/ JoinNotify(p)
    \/ \E gs \in Gamespaces, g \in HeldGroups, a \in Accounts, notify \in Notifies :
            LeaveCall(p, gs, g, a, notify)
    \/ LeaveFind(p)
    \/ LeaveDelete(p)
    \/ LeaveCluster(p)
    \/ LeaveNotify(p)

NextParticipation == EnvParticipation \/ \E p \in Procs : ProcParticipation(p)

SpecParticipation == Init /\ [][NextParticipation]_vars

NextParticipationSeq ==
    \/ Quiescent /\ EnvParticipation
    \/ \E p \in Procs : OthersIdle(p) /\ ProcParticipation(p)

SpecParticipationSeq == Init /\ [][NextParticipationSeq]_vars

(***************************************************************************)
(* Claims about delete_group.                                              *)
(***************************************************************************)
\* process p returns from delete_group with success in this step
DeleteGroupReturns(p) ==
    pc[p] = "dg_row" /\ outcome'[p] = "delete_group: ok"

MessagesTo(rows, gamespace, recipient_class, recipients) ==
    {m \in rows : /\ m.gamespace_id = gamespace
                  /\ m.message_recipient_class = recipient_class
                  /\ m.message_recipient \in recipients}

ClusterRecipients(key) == {key \o <<"-">> \o Str(c) : c \in ClusterIds}

\* C5: when delete_group returns with success, no message addressed to
\* group_key-cluster_id (any cluster id) in the gamespace and class of the
\* group remains, and get_group finds no row (GroupNotFound).
C5_DeleteRemovesClusterMessages ==
    [][\A p \in Procs : DeleteGroupReturns(p) =>
            /\ MessagesTo(messages', call[p].gamespace, call[p].group.group_class,
                          ClusterRecipients(call[p].group.key)) = {}
            /\ get_group(groups', call[p].gamespace, call[p].group.group_id) = {}]_vars

\* C6: when delete_group of a group with key k returns with success, no
\* message whose recipient is exactly k remains in that gamespace and class.
C6_DeleteRemovesGroupMessages ==
    [][\A p \in Procs : DeleteGroupReturns(p) =>
            MessagesTo(messages', call[p].gamespace, call[p].group.group_class,
                       {call[p].group.key}) = {}]_vars

MessageDeletionFailed == "delete_group: GroupError: Failed to delete group's messages"

\* C7: a delete_group call leaves its message-deletion phase either with the
\* deletion done, on to the delete of the row, or failed, and then the call
\* ends with GroupError and the groups table is as it was; a group row is only
\* ever removed by a call whose message deletion succeeded.
C7_FailsClosed ==
    [][/\ \A p \in Procs : pc[p] = "dg_messages" /\ pc'[p] # "dg_messages" =>
            \/ /\ pc'[p] = "dg_row"
               /\ call'[p].messages_deleted
               /\ messages' = delete_messages_like(messages, call[p].gamespace,
                        call[p].group.group_class, call[p].group.key \o <<"-", "%">>)
            \/ /\ pc'[p] = "idle"
               /\ outcome'[p] = MessageDeletionFailed
               /\ groups' = groups
               /\ messages' = messages
       /\ ~(groups \subseteq groups') =>
            \E p \in Procs : pc[p] = "dg_row" /\ call[p].messages_deleted]_vars

C7_Witness ==
    \E p \in Procs : /\ pc[p] = "idle"
                     /\ outcome[p] = MessageDeletionFailed
                     /\ groups # {}
                     /\ nextGroupId = MaxGroups + 1

(***************************************************************************)
(* Claims about join_group and leave_group.                                *)
(***************************************************************************)
AtMostOneRow ==
    \A r1, r2 \in participants :
        (r1.group_id = r2.group_id
            /\ r1.participation_account = r2.participation_account) => r1 = r2

JoinStorageFault == "join_group: GroupError: Failed to join a group"

\* C8: there is at most one participation row per (group_id, account); the
\* INSERT of a join_group for a pair that has a row leaves the table as it is
\* and the call fails with UserAlreadyJoined (GroupError on a storage fault);
\* for a pair that has none it adds the one row of the call, or fails on a
\* storage fault and adds nothing.
C8_JoinedAtMostOnce ==
    /\ []AtMostOneRow
    /\ [][\A p \in Procs : pc[p] = "jg_insert" /\ pc'[p] # "jg_insert" =>
            IF DuplicateParticipation(participants, call[p].group.group_id,
                                      call[p].account)
            THEN /\ participants' = participants
                 /\ pc'[p] = "idle"
                 /\ outcome'[p] \in {"join_group: UserAlreadyJoined",
                                     JoinStorageFault}
            ELSE \/ /\ participants' = participants \cup
                            {ParticipationRow(nextParticipationId, call[p])}
                    /\ pc'[p] = "jg_bind"
                 \/ /\ participants' = participants
                    /\ pc'[p] = "idle"
                    /\ outcome'[p] = JoinStorageFault]_vars

\* two join_group calls interleaved: p has inserted the only row ever
\* inserted and is still running, q has failed with UserAlreadyJoined
C8_Witness ==
    \E p, q \in Procs :
        /\ p # q
        /\ pc[p] = "jg_bind"
        /\ nextParticipationId = 2
        /\ outcome[q] = "join_group: UserAlreadyJoined"
        /\ \E r \in participants : r.participation_role = call[p].role

LeaveLookupFault == "leave_group: GroupError: Failed to get group participant"

\* C9: the lookup of a leave_group for a pair that has no participation row
\* ends the call with GroupParticipantNotFound (GroupError if the lookup
\* itself failed): the call never reaches the DELETE, leave_cluster or the
\* notification, and the participation rows, the cluster slots and the
\* message queue are as they were.
C9_LeaveNotJoined ==
    [][\A p \in Procs :
        (/\ pc[p] = "lg_find" /\ pc'[p] # "lg_find"
         /\ find_group_participant(participants, call[p].gamespace,
                                   call[p].group.group_id, call[p].account) = {})
        => /\ pc'[p] = "idle"
           /\ outcome'[p] \in {"leave_group: GroupParticipantNotFound",
                               LeaveLookupFault}
           /\ participants' = participants
           /\ clusterAccounts' = clusterAccounts
           /\ queue' = queue]_vars

\* a leave of a non-member has failed while the other account is joined and
\* holds its cluster slot
C9_Witness ==
    \E p \in Procs :
        /\ pc[p] = "idle"
        /\ outcome[p] = "leave_group: GroupParticipantNotFound"
        /\ Cardinality(participants) = 1
        /\ clusterAccounts # {}
        /\ queue = {}

\* C10: with one call running at a time, when leave_group returns with
\* success no participation row of its (group, account) pair exists, and the
\* INSERT of a join_group fails with UserAlreadyJoined only if a row of its
\* pair exists: a join after a leave succeeds again.
C10_JoinLeaveCycle ==
    [][\A p \in Procs :
        /\ (pc[p] = "lg_notify" /\ outcome'[p] = "leave_group: ok")
            => find_group_participant(participants', call[p].gamespace,
                                      call[p].group.group_id, call[p].account) = {}
        /\ (pc[p] = "jg_insert"
            /\ outcome'[p] = "join_group: UserAlreadyJoined")
            => find_group_participant(participants, call[p].gamespace,
                                      call[p].group.group_id, call[p].account) # {}]_vars

\* the second row ever inserted belongs to the pair whose leave was announced:
\* the account joined, left, and joined again
C10_Witness ==
    \E r \in participants : \E p \in Procs :
        /\ r.participation_id = 2
        /\ participants = {r}
        /\ Notification(r.gamespace_id, r.participation_account, r.group_class,
                        IF r.cluster_id # 0
                        THEN r.group_key \o <<"-">> \o Str(r.cluster_id)
                        ELSE r.group_key,
                        MESSAGE_PLAYER_LEFT) \in queue
        /\ pc[p] = "idle"
        /\ outcome[p] = "join_group: ok"

(***************************************************************************)
(* update_group (group.py 201-212) and the cluster sizes of a group.       *)
(***************************************************************************)
UpdateSizes == {1, 2}       \* cluster_size passed to new_group / update_group
Members == {1, 2, 3}        \* accounts that join clustered groups

\* UPDATE `groups` SET group_class, group_key, group_cluster_size
\*   WHERE gamespace_id AND group_id
UpdateGroupRows(rows, gamespace, group_id, group_class, key, cluster_size) ==
    {IF g.gamespace_id = gamespace /\ g.group_id = group_id
     THEN [g EXCEPT !.group_class = group_class, !.group_key = key,
                    !.group_cluster_size = cluster_size]
     ELSE g : g \in rows}

\* The UPDATE would give its row the (gamespace, class, key) of another row.
UpdateCollides(rows, gamespace, group_id, group_class, key) ==
    /\ \E g \in rows : g.gamespace_id = gamespace /\ g.group_id = group_id
    /\ \E o \in rows : /\ o.group_id # group_id
                       /\ o.gamespace_id = gamespace
                       /\ o.group_class = group_class
                       /\ o.group_key = key

\* Mutant of UpdateAllowed: the UPDATE is not checked against the unique key.
UpdateUnchecked(rows, gamespace, group_id, group_class, key) == TRUE

UpdateAllowed(rows, gamespace, group_id, group_class, key) ==
    ~UpdateCollides(rows, gamespace, group_id, group_class, key)

\* update_group: one UPDATE; a DatabaseError (a duplicate key included) is
\* raised as GroupError and leaves the table as it is.  The adapters of the
\* rows as they are now are what get_group and find_group hand out from now on.
UpdateGroup(gamespace, group_id, group_class, key, cluster_size) ==
    /\ \/ /\ UpdateAllowed(groups, gamespace, group_id, group_class, key)
          /\ groups' = UpdateGroupRows(groups, gamespace, group_id, group_class,
                                       key, cluster_size)
          /\ held' = held \cup {[gamespace |-> g.gamespace_id,
                                 group |-> GroupAdapter(g)] : g \in groups'}
       \/ UNCHANGED <<groups, held>>
    /\ UNCHANGED <<messages, nextMessageId, nextGroupId, participants,
                   nextParticipationId, clusterAccounts, queue, pc, call, outcome>>

EnvClusters ==
    \/ \E gs \in Gamespaces, key \in GroupKeys, size \in ClusterSizes :
            NewGroup(gs, CLASS_GROUP, key, TRUE, size)
    \/ \E gs \in Gamespaces, id \in 1..MaxGroups, key \in GroupKeys,
          size \in UpdateSizes :
            UpdateGroup(gs, id, CLASS_GROUP, key, size)

ProcClusters(p) ==
    \/ \E gs \in Gamespaces, g \in HeldGroups, a \in Members :
            JoinCall(p, gs, g, a, "member", "none")
    \/ JoinGetCluster(p)
    \/ JoinInsert(p)
    \/ JoinBind(p)
    \/ JoinNotify(p)

NextClusters == EnvClusters \/ \E p \in Procs : ProcClusters(p)

SpecClusters == Init /\ [][NextClusters]_vars

(***************************************************************************)
(* Claims about cluster sizes.                                             *)
(***************************************************************************)
\* the cluster sizes of the adapters of group `group_id` handed out so far
SizesOf(group_id) ==
    {h.group.cluster_size : h \in {x \in held : x.group.group_id = group_id}}

Max(S) == CHOOSE x \in S : \A y \in S : y <= x

\* no cluster of group `group_id` holds more than k accounts
ClustersWithin(group_id, k) ==
    \A s \in clusterAccounts :
        s.group_id = group_id =>
            Cardinality(ClusterMembers(clusterAccounts, s.gamespace_id, group_id,
                                       s.cluster_id)) <= k

\* C11 as stated: no cluster of a clustered group ever holds more accounts
\* than the cluster size K the group was created with (every group here is
\* created with a size of ClusterSizes; update_group gives it one of
\* UpdateSizes).
C11_NeverMoreThanCreatedSize ==
    \A g \in groups : \A k \in ClusterSizes :
        g.group_clustered => ClustersWithin(g.group_id, k)

\* C11: no cluster of a clustered group holds more accounts than the largest
\* cluster size the group has had (the one it was created with, or one that
\* update_group gave it).
C11_NeverMoreThanLargestSize ==
    \A id \in 1..MaxGroups :
        SizesOf(id) # {} => ClustersWithin(id, Max(SizesOf(id)))

\* three accounts hold slots of a group whose cluster size was never above
\* 1, so each has a cluster of its own
C11_Witness ==
    \E g \in groups :
        /\ g.group_clustered
        /\ SizesOf(g.group_id) = {1}
        /\ Cardinality(ClusterSlots(clusterAccounts, g.gamespace_id, g.group_id)) = 3
        /\ Cardinality(participants) = 2

(***************************************************************************)
(* list_messages_account and list_messages_account_with_count              *)
(* (history.py 216-278): the account feed.                                 *)
(***************************************************************************)
Tenants == {1, 2}           \* gamespaces of the feed

\* first SELECT: the messages of the gamespace whose (class, recipient) is
\* the (group_class, group_key) of a group that has a participation row of
\* the account; the subquery names no gamespace
GroupMessages(msgs, grps, parts, gamespace, account_id) ==
    {m \in msgs :
        /\ m.gamespace_id = gamespace
        /\ \E g \in grps, r \in parts :
                /\ g.group_class = m.message_recipient_class
                /\ g.group_key = m.message_recipient
                /\ g.group_id = r.group_id
                /\ Str(r.participation_account) = account_id}

\* second SELECT: gamespace, message_recipient_class = CLASS_USER and
\* message_recipient = str(account_id)
DirectMessages(msgs, gamespace, account_id) ==
    {m \in msgs : /\ m.gamespace_id = gamespace
                  /\ m.message_recipient_class = CLASS_USER
                  /\ m.message_recipient = account_id}

\* third SELECT: gamespace and message_sender = str(account_id)
SentMessages(msgs, gamespace, account_id) ==
    {m \in msgs : m.gamespace_id = gamespace /\ Str(m.message_sender) = account_id}

\* the rows of a SELECT, in the order the storage gives them
RECURSIVE Rows(_)
Rows(S) == IF S = {} THEN <<>>
           ELSE LET m == CHOOSE x \in S : \A y \in S : x.message_id <= y.message_id
                IN  <<m>> \o Rows(S \ {m})

\* Mutant of UnionDistinct: UNION ALL.
UnionAll(a, b, c) == Rows(a) \o Rows(b) \o Rows(c)

\* a UNION DISTINCT b UNION DISTINCT c: equal rows once
UnionDistinct(a, b, c) == Rows(a \cup b \cup c)

\* ORDER BY `message_id` DESC
RECURSIVE OrderByIdDesc(_)
OrderByIdDesc(rows) ==
    IF rows = <<>> THEN <<>>
    ELSE LET i == CHOOSE i \in 1..Len(rows) :
                    \A j \in 1..Len(rows) : rows[j].message_id <= rows[i].message_id
         IN  <<rows[i]>> \o OrderByIdDesc(SubSeq(rows, 1, i - 1)
                                          \o SubSeq(rows, i + 1, Len(rows)))

\* LIMIT offset, limit
Limit(rows, offset, limit) == SubSeq(rows, offset + 1, Min({Len(rows), offset + limit}))

\* line 241
BadWindow(limit, offset) == limit < 1 \/ limit > 10000 \/ offset < 0 \/ offset > 10000

\* lines 244-274: the query, with str(account_id) as the account
AccountQuery(msgs, grps, parts, gamespace, account_id, limit, offset) ==
    Limit(OrderByIdDesc(UnionDistinct(
              GroupMessages(msgs, grps, parts, gamespace, Str(account_id)),
              DirectMessages(msgs, gamespace, Str(account_id)),
              SentMessages(msgs, gamespace, Str(account_id)))),
          offset, limit)

\* list_messages_account(gamespace, account_id, limit, offset): the call
ListAccountCall(p, gamespace, account_id, limit, offset) ==
    /\ pc[p] = "idle"
    /\ call' = [call EXCEPT ![p] =
            [op |-> "list_messages_account", gamespace |-> gamespace,
             account_id |-> account_id, limit |-> limit, offset |-> offset,
             storage_calls |-> 0, messages |-> <<>>]]
    /\ pc' = [pc EXCEPT ![p] = "la_query"]
    /\ outcome' = [outcome EXCEPT ![p] = Running]
    /\ UNCHANGED <<messages, nextMessageId, groupVars>>

\* lines 241-276: the bounds check, then the query on self.db
ListAccountQuery(p) ==
    /\ pc[p] = "la_query"
    /\ IF BadWindow(call[p].limit, call[p].offset)
       THEN /\ outcome' = [outcome EXCEPT ![p] =
                    "list_messages_account: MessageError 400"]
            /\ pc' = [pc EXCEPT ![p] = "idle"]
            /\ call' = [call EXCEPT ![p] = NoCall]
       ELSE \/ /\ call' = [call EXCEPT ![p] =
                        [@ EXCEPT !.storage_calls = @ + 1,
                                  !.messages = AccountQuery(messages, groups,
                                        participants, call[p].gamespace,
                                        call[p].account_id, call[p].limit,
                                        call[p].offset)]]
               /\ pc' = [pc EXCEPT ![p] = "la_return"]
               /\ UNCHANGED outcome
            \/ /\ outcome' = [outcome EXCEPT ![p] =             \* DatabaseError
                        "list_messages_account: MessageError 500"]
               /\ pc' = [pc EXCEPT ![p] = "idle"]
               /\ call' = [call EXCEPT ![p] = NoCall]
    /\ UNCHANGED <<messages, nextMessageId, groupVars>>

\* line 278: raise Return(map(MessageAdapter, messages))
ListAccountReturn(p) ==
    /\ pc[p] = "la_return"
    /\ outcome' = [outcome EXCEPT ![p] = "list_messages_account: ok"]
    /\ pc' = [pc EXCEPT ![p] = "idle"]
    /\ call' = [call EXCEPT ![p] = NoCall]
    /\ UNCHANGED <<messages, nextMessageId, groupVars>>

\* The feed is a function of the three tables.  Its specification starts
\* from tables that new_group and join_group leave behind: in each gamespace
\* no group, a plain one or a clustered one with the same class and key, and
\* accounts joined to them, in cluster 0 of a plain group and (the cluster
\* size being 1) in a cluster of their own of a clustered one.
GroupKinds == {"none", "plain", "clustered"}

FeedGroupId(kind, t) == Cardinality({u \in Tenants : u <= t /\ kind[u] # "none"})

FeedGroupRow(kind, t) ==
    [group_id |-> FeedGroupId(kind, t), gamespace_id |-> t,
     group_class |-> CLASS_GROUP, group_key |-> <<"g">>,
     group_clustered |-> (kind[t] = "clustered"), group_cluster_size |-> 1]

FeedParticipationRow(kind, joined, t, a) ==
    [participation_id |->
        Cardinality({x \in joined : x[1] < t \/ (x[1] = t /\ x[2] <= a)}),
     gamespace_id |-> t, group_id |-> FeedGroupId(kind, t),
     group_class |-> CLASS_GROUP, group_key |-> <<"g">>,
     participation_account |-> a, participation_role |-> "member",
     cluster_id |-> IF kind[t] = "clustered" THEN a ELSE 0]

InitFeed ==
    \E kind \in [Tenants -> GroupKinds] :
    \E joined \in SUBSET {x \in Tenants \X Accounts : kind[x[1]] # "none"} :
        /\ Cardinality(joined) <= MaxParticipations
        /\ groups = {FeedGroupRow(kind, t) : t \in {u \in Tenants : kind[u] # "none"}}
        /\ participants = {FeedParticipationRow(kind, joined, x[1], x[2]) : x \in joined}
        /\ nextGroupId = Cardinality(groups) + 1
        /\ nextParticipationId = Cardinality(joined) + 1
        /\ clusterAccounts =
                {[gamespace_id |-> r.gamespace_id, group_id |-> r.group_id,
                  account |-> r.participation_account, cluster_id |-> r.cluster_id] :
                        r \in {x \in participants : x.cluster_id # 0}}
        /\ held = {[gamespace |-> g.gamespace_id, group |-> GroupAdapter(g)] :
                        g \in groups}
        /\ messages = {}
        /\ nextMessageId = 1
        /\ queue = {}
        /\ pc = [p \in Procs |-> "idle"]
        /\ call = [p \in Procs |-> NoCall]
        /\ outcome = [p \in Procs |-> "none"]

\* the messages of the feed: <<gamespace, sender, class, recipient>>
FeedMessages ==
    ({1} \X Accounts \X {CLASS_GROUP} \X {<<"g">>, <<"g", "-", "1">>})
    \cup ({1} \X Accounts \X {CLASS_USER} \X {<<"1">>})
    \cup {<<2, 2, CLASS_GROUP, <<"g">>>>, <<2, 1, CLASS_USER, <<"1">>>>}

EnvFeed ==
    \E m \in FeedMessages : AddMessage(m[1], m[2], m[3], m[4], "dict", {}, FALSE)

FeedLimits == {1, 2}
FeedOffsets == {0, 1}

ProcFeed(p) ==
    \/ \E gs \in Tenants, a \in Accounts, limit \in FeedLimits, offset \in FeedOffsets :
            ListAccountCall(p, gs, a, limit, offset)
    \/ ListAccountQuery(p)
    \/ ListAccountReturn(p)

\* the feed is a function of the tables: the calls run one at a time
NextFeed ==
    \/ Quiescent /\ EnvFeed
    \/ \E p \in Procs : OthersIdle(p) /\ ProcFeed(p)

SpecFeed == InitFeed /\ [][NextFeed]_vars

(***************************************************************************)
(* Claims about the account feed.                                          *)
(***************************************************************************)
\* process p gets the result of its list_messages_account query in this step
FeedAnswered(p) == pc[p] = "la_query" /\ pc'[p] = "la_return"

\* the recipient key of a participation row
RecipientKey(r) ==
    IF r.cluster_id = 0 THEN r.group_key
    ELSE r.group_key \o <<"-">> \o Str(r.cluster_id)

\* the feed of the account as the claim describes it
UnifiedFeed(gamespace, account) ==
    {m \in messages :
        /\ m.gamespace_id = gamespace
        /\ \/ \E r \in participants :
                /\ r.gamespace_id = gamespace
                /\ r.participation_account = account
                /\ m.message_recipient_class = r.group_class
                /\ m.message_recipient = RecipientKey(r)
           \/ (m.message_recipient_class = CLASS_USER
                /\ m.message_recipient = Str(account))
           \/ m.message_sender = account}

\* C12: the result of list_messages_account is the offset/limit window of
\* the messages of the gamespace that are addressed to a recipient key of a
\* participation the account holds (group_key, or group_key-cluster_id in a
\* clustered group), addressed to the account as a user, or sent by it.
C12_UnifiedFeed ==
    [][\A p \in Procs : FeedAnswered(p) =>
        call'[p].messages =
            Limit(OrderByIdDesc(Rows(UnifiedFeed(call[p].gamespace, call[p].account_id))),
                  call[p].offset, call[p].limit)]_vars

\* C13: the result of list_messages_account is strictly descending in
\* message id, so that no message id is returned twice.
C13_NoDuplicatesDescending ==
    [][\A p \in Procs : FeedAnswered(p) =>
        \A i, j \in 1..Len(call'[p].messages) :
            i < j => call'[p].messages[i].message_id > call'[p].messages[j].message_id]_vars

\* a result of two messages, one of which the account sent to a group it is a
\* member of, and one of which it sent to itself
C13_Witness ==
    \E p \in Procs :
        /\ pc[p] = "la_return"
        /\ Len(call[p].messages) = 2
        /\ \E i, j \in 1..2 :
            /\ call[p].messages[i] \in
                    GroupMessages(messages, groups, participants, call[p].gamespace,
                                  Str(call[p].account_id))
                    \cap SentMessages(messages, call[p].gamespace, Str(call[p].account_id))
            /\ call[p].messages[j] \in
                    DirectMessages(messages, call[p].gamespace, Str(call[p].account_id))
                    \cap SentMessages(messages, call[p].gamespace, Str(call[p].account_id))

\* C15: a message addressed to a group class recipient that the account did
\* not send is in the result of list_messages_account(G, account) only if the
\* account has, in gamespace G, a participation in the group the message is
\* addressed to.
C15_GamespacesIsolated ==
    [][\A p \in Procs : FeedAnswered(p) =>
        \A i \in 1..Len(call'[p].messages) :
            LET m == call'[p].messages[i]
            IN  (m.message_recipient_class = CLASS_GROUP
                    /\ m.message_sender # call[p].account_id)
                => \E r \in participants :
                    /\ r.gamespace_id = call[p].gamespace
                    /\ r.participation_account = call[p].account_id
                    /\ r.group_class = m.message_recipient_class
                    /\ m.message_recipient \in {r.group_key, RecipientKey(r)}]_vars

(***************************************************************************)
(* list_messages_account_with_count (history.py 216-231), one action per   *)
(* yield, and the pagination bounds.                                       *)
(***************************************************************************)
ListCountCall(p, gamespace, account_id, limit, offset) ==
    /\ pc[p] = "idle"
    /\ call' = [call EXCEPT ![p] =
            [op |-> "list_messages_account_with_count", gamespace |-> gamespace,
             account_id |-> account_id, limit |-> limit, offset |-> offset,
             storage_calls |-> 0, messages |-> <<>>, found_rows |-> 0]]
    /\ pc' = [pc EXCEPT ![p] = "lc_acquire"]
    /\ outcome' = [outcome EXCEPT ![p] = Running]
    /\ UNCHANGED <<messages, nextMessageId, groupVars>>

\* line 219: with (yield self.db.acquire()) as db
ListCountAcquire(p) ==
    /\ pc[p] = "lc_acquire"
    /\ \/ /\ call' = [call EXCEPT ![p].storage_calls = @ + 1]
          /\ pc' = [pc EXCEPT ![p] = "lc_query"]
          /\ UNCHANGED outcome
       \/ /\ outcome' = [outcome EXCEPT ![p] =
                    "list_messages_account_with_count: DatabaseError"]
          /\ pc' = [pc EXCEPT ![p] = "idle"]
          /\ call' = [call EXCEPT ![p] = NoCall]
    /\ UNCHANGED <<messages, nextMessageId, groupVars>>

\* line 220: list_messages_account(gamespace, account_id, limit, offset, db=db);
\* SQL_CALC_FOUND_ROWS keeps the size of the result without its LIMIT
ListCountQuery(p) ==
    /\ pc[p] = "lc_query"
    /\ IF BadWindow(call[p].limit, call[p].offset)
       THEN /\ outcome' = [outcome EXCEPT ![p] =
                    "list_messages_account_with_count: MessageError 400"]
            /\ pc' = [pc EXCEPT ![p] = "idle"]
            /\ call' = [call EXCEPT ![p] = NoCall]
       ELSE \/ /\ call' = [call EXCEPT ![p] =
                        [@ EXCEPT !.storage_calls = @ + 1,
                                  !.messages = AccountQuery(messages, groups,
                                        participants, call[p].gamespace,
                                        call[p].account_id, call[p].limit,
                                        call[p].offset),
                                  !.found_rows = Len(AccountQuery(messages, groups,
                                        participants, call[p].gamespace,
                                        call[p].account_id,
                                        Cardinality(messages) + 1, 0))]]
               /\ pc' = [pc EXCEPT ![p] = "lc_count"]
               /\ UNCHANGED outcome
            \/ /\ outcome' = [outcome EXCEPT ![p] =             \* DatabaseError
                        "list_messages_account_with_count: MessageError 500"]
               /\ pc' = [pc EXCEPT ![p] = "idle"]
               /\ call' = [call EXCEPT ![p] = NoCall]
    /\ UNCHANGED <<messages, nextMessageId, groupVars>>

\* lines 221-227: SELECT FOUND_ROWS() AS count
ListCountFoundRows(p) ==
    /\ pc[p] = "lc_count"
    /\ \/ /\ call' = [call EXCEPT ![p].storage_calls = @ + 1]
          /\ pc' = [pc EXCEPT ![p] = "lc_return"]
          /\ UNCHANGED outcome
       \/ /\ outcome' = [outcome EXCEPT ![p] =                  \* DatabaseError
                    "list_messages_account_with_count: MessageError 500"]
          /\ pc' = [pc EXCEPT ![p] = "idle"]
          /\ call' = [call EXCEPT ![p] = NoCall]
    /\ UNCHANGED <<messages, nextMessageId, groupVars>>

\* lines 229-231: raise Return((messages, count_result))
ListCountReturn(p) ==
    /\ pc[p] = "lc_return"
    /\ outcome' = [outcome EXCEPT ![p] = "list_messages_account_with_count: ok"]
    /\ pc' = [pc EXCEPT ![p] = "idle"]
    /\ call' = [call EXCEPT ![p] = NoCall]
    /\ UNCHANGED <<messages, nextMessageId, groupVars>>

WindowLimits == {0, 1, 10000, 10001}
WindowOffsets == {-1, 0, 10000, 10001}

EnvPagination ==
    \E gs \in Gamespaces, sender \in Accounts :
        AddMessage(gs, sender, CLASS_USER, <<"1">>, "dict", {}, FALSE)

ProcPagination(p) ==
    \/ \E gs \in Gamespaces, a \in Accounts, limit \in WindowLimits,
          offset \in WindowOffsets : ListAccountCall(p, gs, a, limit, offset)
    \/ ListAccountQuery(p)
    \/ ListAccountReturn(p)
    \/ \E gs \in Gamespaces, a \in Accounts, limit \in WindowLimits,
          offset \in WindowOffsets : ListCountCall(p, gs, a, limit, offset)
    \/ ListCountAcquire(p)
    \/ ListCountQuery(p)
    \/ ListCountFoundRows(p)
    \/ ListCountReturn(p)

NextPagination == EnvPagination \/ \E p \in Procs : ProcPagination(p)

SpecPagination == Init /\ [][NextPagination]_vars

(***************************************************************************)
(* Claims about the pagination bounds of the feed.                         *)
(***************************************************************************)
WindowRejected ==
    {"list_messages_account: MessageError 400",
     "list_messages_account_with_count: MessageError 400"}

\* C14: a call of list_messages_account or list_messages_account_with_count
\* with limit < 1, limit > 10000, offset < 0 or offset > 10000 ends with
\* MessageError 400, and has then issued no storage call, the acquisition of
\* a connection included.
C14_BoundsBeforeStorage ==
    [][\A p \in Procs :
        (pc[p] \in {"la_query", "lc_acquire", "lc_query"} /\ pc'[p] # pc[p]
            /\ BadWindow(call[p].limit, call[p].offset))
        => /\ pc'[p] = "idle"
           /\ outcome'[p] \in WindowRejected
           /\ call[p].storage_calls = 0]_vars

(***************************************************************************)
(* MessagesQuery (history.py 41-141): the query builder.                   *)
(***************************************************************************)
\* MessagesQuery.__init__: no filter set, offset 0 and limit 0; an unset
\* string is "" and an unset sender 0, which `if self.x:` skips like None
MessagesQuery(gamespace_id) ==
    [gamespace_id |-> gamespace_id, message_sender |-> 0,
     message_recipient_class |-> <<>>, message_recipient |-> <<>>,
     offset |-> 0, limit |-> 0]

\* __values__: the conditions of the WHERE clause
QueryMatches(q, m) ==
    /\ m.gamespace_id = q.gamespace_id
    /\ (q.message_sender # 0 => m.message_sender = q.message_sender)
    /\ (q.message_recipient_class # <<>>
            => m.message_recipient_class = q.message_recipient_class)
    /\ (q.message_recipient # <<>> => Like(m.message_recipient, q.message_recipient))

\* Mutant of QueryLimited: every query carries a LIMIT clause.
QueryAlwaysLimited(q) == TRUE

\* line 101: if self.limit: query += "LIMIT %s,%s"
QueryLimited(q) == q.limit # 0

\* the statement is refused by the storage: a negative number in LIMIT
QueryRefused(q) == QueryLimited(q) /\ (q.limit < 0 \/ q.offset < 0)

\* query(): the results the statement can give.  ORDER BY message_time DESC
\* orders by what the callers passed as time, so when the window cuts the
\* result any rows of the matching ones may be the ones in it.
QueryResults(rows, q) ==
    LET all == {m \in rows : QueryMatches(q, m)}
        n   == IF Cardinality(all) <= q.offset THEN 0
               ELSE Min({q.limit, Cardinality(all) - q.offset})
    IN  IF QueryLimited(q) THEN {r \in SUBSET all : Cardinality(r) = n}
        ELSE {all}

\* messages_query(gamespace), the attributes the caller sets, and query()
QueryCall(p, gamespace, recipient_class, recipient, limit, offset) ==
    /\ pc[p] = "idle"
    /\ call' = [call EXCEPT ![p] =
            [op |-> "MessagesQuery.query",
             q |-> [MessagesQuery(gamespace) EXCEPT
                        !.message_recipient_class = recipient_class,
                        !.message_recipient = recipient,
                        !.limit = limit, !.offset = offset],
             items |-> {}]]
    /\ pc' = [pc EXCEPT ![p] = "mq_acquire"]
    /\ outcome' = [outcome EXCEPT ![p] = Running]
    /\ UNCHANGED <<messages, nextMessageId, groupVars>>

\* line 121: with (yield self.db.acquire()) as db
QueryAcquire(p) ==
    /\ pc[p] = "mq_acquire"
    /\ \/ /\ pc' = [pc EXCEPT ![p] = "mq_query"]
          /\ UNCHANGED <<outcome, call>>
       \/ /\ outcome' = [outcome EXCEPT ![p] = "MessagesQuery.query: DatabaseError"]
          /\ pc' = [pc EXCEPT ![p] = "idle"]
          /\ call' = [call EXCEPT ![p] = NoCall]
    /\ UNCHANGED <<messages, nextMessageId, groupVars>>

\* lines 122-125: result = yield db.query(query, *data)
QueryRun(p) ==
    /\ pc[p] = "mq_query"
    /\ \/ /\ ~QueryRefused(call[p].q)
          /\ \E items \in QueryResults(messages, call[p].q) :
                call' = [call EXCEPT ![p].items = items]
          /\ pc' = [pc EXCEPT ![p] = "mq_return"]
          /\ UNCHANGED outcome
       \/ /\ outcome' = [outcome EXCEPT ![p] =                  \* DatabaseError
                    "MessagesQuery.query: MessageQueryError"]
          /\ pc' = [pc EXCEPT ![p] = "idle"]
          /\ call' = [call EXCEPT ![p] = NoCall]
    /\ UNCHANGED <<messages, nextMessageId, groupVars>>

\* lines 135-140: raise Return(items)
QueryReturn(p) ==
    /\ pc[p] = "mq_return"
    /\ outcome' = [outcome EXCEPT ![p] = "MessagesQuery.query: ok"]
    /\ pc' = [pc EXCEPT ![p] = "idle"]
    /\ call' = [call EXCEPT ![p] = NoCall]
    /\ UNCHANGED <<messages, nextMessageId, groupVars>>

QueryLimits == {0, 1, 10001}
QueryOffsets == {-1, 0, 10001}
QueryRecipients == {<<>>, <<"1">>, <<"%">>}

EnvQuery ==
    \E gs \in Gamespaces, rcp \in Recipients :
        AddMessage(gs, 1, CLASS_USER, rcp, "dict", {}, FALSE)

ProcQuery(p) ==
    \/ \E gs \in Gamespaces, rcp \in QueryRecipients, limit \in QueryLimits,
          offset \in QueryOffsets : QueryCall(p, gs, CLASS_USER, rcp, limit, offset)
    \/ QueryAcquire(p)
    \/ QueryRun(p)
    \/ QueryReturn(p)

NextQuery == EnvQuery \/ \E p \in Procs : ProcQuery(p)

SpecQuery == Init /\ [][NextQuery]_vars

(***************************************************************************)
(* Claims about the query builder.                                         *)
(***************************************************************************)
\* C16: a MessagesQuery whose limit is outside [1,10000] or whose offset is
\* outside [0,10000] is not executed: its query() ends with an error and
\* gives no rows.
C16_BuilderValidatesWindow ==
    [][\A p \in Procs :
        (pc[p] = "mq_query" /\ pc'[p] # pc[p]
            /\ BadWindow(call[p].q.limit, call[p].q.offset))
        => /\ pc'[p] = "idle"
           /\ outcome'[p] = "MessagesQuery.query: MessageQueryError"]_vars

(***************************************************************************)
(* new_group as a call of a process (group.py 84-101), so that its result  *)
(* can be told; with update_group and delete_group it makes the directory  *)
(* whose identity rule is checked.                                         *)
(***************************************************************************)
NewGroupCall(p, gamespace, group_class, key, clustered, cluster_size) ==
    /\ pc[p] = "idle"
    /\ call' = [call EXCEPT ![p] =
            [op |-> "new_group", gamespace |-> gamespace, group_class |-> group_class,
             key |-> key, clustered |-> clustered, cluster_size |-> cluster_size]]
    /\ pc' = [pc EXCEPT ![p] = "ng_insert"]
    /\ outcome' = [outcome EXCEPT ![p] = Running]
    /\ UNCHANGED <<messages, nextMessageId, groupVars>>

\* Mutant of InsertRefused: the INSERT never meets a duplicate.
InsertUnchecked(rows, gamespace, group_class, key) == FALSE

\* lines 88-96: the INSERT raises DuplicateError
InsertRefused(rows, gamespace, group_class, key) ==
    DuplicateGroup(rows, gamespace, group_class, key)

\* lines 88-101: the INSERT and the three ways out
NewGroupInsert(p) ==
    LET c   == call[p]
        row == [group_id |-> nextGroupId, gamespace_id |-> c.gamespace,
                group_class |-> c.group_class, group_key |-> c.key,
                group_clustered |-> c.clustered,
                group_cluster_size |-> c.cluster_size]
    IN  /\ pc[p] = "ng_insert"
        /\ \/ /\ InsertRefused(groups, c.gamespace, c.group_class, c.key)
              /\ outcome' = [outcome EXCEPT ![p] = "new_group: GroupExistsError"]
              /\ UNCHANGED <<groups, nextGroupId, held>>
           \/ /\ ~InsertRefused(groups, c.gamespace, c.group_class, c.key)
              /\ nextGroupId <= MaxGroups
              /\ groups' = groups \cup {row}
              /\ nextGroupId' = nextGroupId + 1
              /\ held' = held \cup {[gamespace |-> c.gamespace,
                                     group |-> GroupAdapter(row)]}
              /\ outcome' = [outcome EXCEPT ![p] = "new_group: ok"]
           \/ /\ outcome' = [outcome EXCEPT ![p] = "new_group: GroupError"]
              /\ UNCHANGED <<groups, nextGroupId, held>>
        /\ pc' = [pc EXCEPT ![p] = "idle"]
        /\ call' = [call EXCEPT ![p] = NoCall]
        /\ UNCHANGED <<messages, nextMessageId, participants, nextParticipationId,
                       clusterAccounts, queue>>

IdentityKeys == {<<"g">>, <<"h">>}

EnvIdentity ==
    \E gs \in Tenants, id \in 1..MaxGroups, key \in IdentityKeys :
        UpdateGroup(gs, id, CLASS_GROUP, key, 1)

ProcIdentity(p) ==
    \/ \E gs \in Tenants, key \in IdentityKeys :
            NewGroupCall(p, gs, CLASS_GROUP, key, FALSE, 1)
    \/ NewGroupInsert(p)
    \/ \E gs \in Tenants, g \in HeldGroups : DeleteGroupCall(p, gs, g)
    \/ \E deleted \in BOOLEAN : DeleteGroupMessages(p, deleted)
    \/ DeleteGroupRow(p)

NextIdentity == EnvIdentity \/ \E p \in Procs : ProcIdentity(p)

SpecIdentity == Init /\ [][NextIdentity]_vars

(***************************************************************************)
(* Claims about the identity of groups.                                    *)
(***************************************************************************)
UniqueIdentity ==
    \A g1, g2 \in groups :
        (g1.gamespace_id = g2.gamespace_id /\ g1.group_class = g2.group_class
            /\ g1.group_key = g2.group_key) => g1 = g2

NewGroupStorageFault == "new_group: GroupError"

\* C17: no two group rows share (gamespace, group_class, group_key), whatever
\* new_group, update_group and delete_group calls have run; the INSERT of a
\* new_group whose triple is that of a row fails with GroupExistsError
\* (GroupError on a storage fault) and leaves the table as it is.
C17_UniqueIdentity ==
    /\ []UniqueIdentity
    /\ [][\A p \in Procs :
            (pc[p] = "ng_insert" /\ pc'[p] # "ng_insert"
                /\ \E g \in groups : /\ g.gamespace_id = call[p].gamespace
                                     /\ g.group_class = call[p].group_class
                                     /\ g.group_key = call[p].key)
            => /\ groups' = groups
               /\ outcome'[p] \in {"new_group: GroupExistsError",
                                   NewGroupStorageFault}]_vars

\* a group was renamed by update_group, a second one took the name it left,
\* and a new_group for a name in use has failed
C17_Witness ==
    /\ Cardinality(groups) = 2
    /\ \E h1, h2 \in held : /\ h1.group.group_id = h2.group.group_id
                            /\ h1.group.key # h2.group.key
    /\ \E p \in Procs : outcome[p] = "new_group: GroupExistsError"

(***************************************************************************)
(* Claims about what join_group returns and whom it notifies.              *)
(***************************************************************************)
\* C18: the Participation a successful join_group returns carries the role
\* and the account of the call, the class and key of the group, and the
\* cluster id the call got for the account (0 for a group without clusters).
C18_ReturnsPopulatedParticipation ==
    [][\A p \in Procs :
        (pc[p] = "jg_notify" /\ outcome'[p] = "join_group: ok")
        => /\ call[p].participation.role = call[p].role
           /\ call[p].participation.account = call[p].account
           /\ call[p].participation.group_class = call[p].group.group_class
           /\ call[p].participation.group_key = call[p].group.key
           /\ call[p].participation.cluster_id = call[p].cluster_id
           /\ (~call[p].group.clustered => call[p].participation.cluster_id = 0)]_vars

(***************************************************************************)
(* accounts_deleted (group.py 66-82): the hook of the account erasure.     *)
(***************************************************************************)
\* Mutant of DeletedParticipations: gamespace_only is not looked at.
DeletedEverywhere(rows, gamespace, accounts, gamespace_only) ==
    {r \in rows : r.participation_account \in accounts}

\* lines 69-80: the rows the DELETE of the taken branch removes
DeletedParticipations(rows, gamespace, accounts, gamespace_only) ==
    IF gamespace_only
    THEN {r \in rows : r.gamespace_id = gamespace /\ r.participation_account \in accounts}
    ELSE {r \in rows : r.participation_account \in accounts}

AccountsDeletedCall(p, gamespace, accounts, gamespace_only) ==
    /\ pc[p] = "idle"
    /\ call' = [call EXCEPT ![p] =
            [op |-> "accounts_deleted", gamespace |-> gamespace,
             accounts |-> accounts, gamespace_only |-> gamespace_only]]
    /\ pc' = [pc EXCEPT ![p] = "ad_delete"]
    /\ outcome' = [outcome EXCEPT ![p] = Running]
    /\ UNCHANGED <<messages, nextMessageId, groupVars>>

\* lines 68-82: the one DELETE; DatabaseError -> MessageError(500).  The
\* arguments of the call stay on record after it returned.
AccountsDeletedRun(p) ==
    /\ pc[p] = "ad_delete"
    /\ \/ /\ participants' = participants \
                DeletedParticipations(participants, call[p].gamespace,
                                      call[p].accounts, call[p].gamespace_only)
          /\ outcome' = [outcome EXCEPT ![p] = "accounts_deleted: ok"]
       \/ /\ outcome' = [outcome EXCEPT ![p] = "accounts_deleted: MessageError 500"]
          /\ UNCHANGED participants
    /\ pc' = [pc EXCEPT ![p] = "idle"]
    /\ UNCHANGED <<messages, nextMessageId, groups, nextGroupId, nextParticipationId,
                   clusterAccounts, queue, held, call>>

PurgedAccounts == {{1}, {2}, {1, 2}}

ProcPurge(p) ==
    \/ \E gs \in Tenants, accounts \in PurgedAccounts, gamespace_only \in BOOLEAN :
            AccountsDeletedCall(p, gs, accounts, gamespace_only)
    \/ AccountsDeletedRun(p)

NextPurge == \E p \in Procs : ProcPurge(p)

SpecPurge == InitFeed /\ [][NextPurge]_vars

(***************************************************************************)
(* Claims about the account erasure.                                       *)
(***************************************************************************)
\* C19: the DELETE of accounts_deleted, when it succeeds, removes the
\* participation rows of the given accounts (those of the given gamespace
\* if gamespace_only, those of every gamespace if not) and no other row; when
\* it fails the call ends with an error and every row is still there.
C19_PurgesOnlyTheAccounts ==
    [][\A p \in Procs : (pc[p] = "ad_delete" /\ pc'[p] = "idle") =>
        IF outcome'[p] = "accounts_deleted: ok"
        THEN \A r \in participants :
                r \in participants' <=>
                    ~(/\ r.participation_account \in call[p].accounts
                      /\ (call[p].gamespace_only
                            => r.gamespace_id = call[p].gamespace))
        ELSE /\ outcome'[p] = "accounts_deleted: MessageError 500"
             /\ participants' = participants]_vars

\* a purge of one gamespace has returned and a participation of one of its
\* accounts in another gamespace is still there
C19_Witness ==
    \E p \in Procs :
        /\ pc[p] = "idle"
        /\ outcome[p] = "accounts_deleted: ok"
        /\ call[p].gamespace_only
        /\ participants # {}
        /\ \A r \in participants : /\ r.participation_account \in call[p].accounts
                                   /\ r.gamespace_id # call[p].gamespace
        /\ nextParticipationId = MaxParticipations + 1


guild == <<"g", "u", "i", "l", "d">>

KeyOfCluster(group_key, cluster_id) ==
    IF cluster_id = 0 THEN group_key ELSE group_key \o <<"-">> \o Str(cluster_id)

\* C20: the recipient key of a participation of "guild" in cluster 7 is
\* "guild-7" and in cluster 0 "guild"; the player_joined message of a
\* join_group goes to the group's key, followed by "-" and the cluster id the
\* call got unless that is 0, and the player_left message of a leave_group to
\* the same key of the participation it found and removed; no other message
\* is queued by either.
C20_RecipientKey ==
    /\ [](/\ calculate_recipient([group_key |-> guild, cluster_id |-> 7])
                = <<"g", "u", "i", "l", "d", "-", "7">>
          /\ calculate_recipient([group_key |-> guild, cluster_id |-> 0]) = guild)
    /\ [][\A p \in Procs :
            /\ (pc[p] = "jg_notify" /\ pc'[p] = "idle") =>
                    IF outcome'[p] = "join_group: ok" /\ call[p].notify # "none"
                    THEN queue' = queue \cup
                            {[gamespace |-> call[p].gamespace, sender |-> call[p].account,
                              recipient_class |-> call[p].group.group_class,
                              recipient |-> KeyOfCluster(call[p].group.key,
                                                         call[p].cluster_id),
                              message_type |-> "player_joined"]}
                    ELSE queue' = queue
            /\ (pc[p] = "lg_notify" /\ pc'[p] = "idle") =>
                    IF outcome'[p] = "leave_group: ok" /\ call[p].notify # "none"
                    THEN queue' = queue \cup
                            {[gamespace |-> call[p].gamespace, sender |-> call[p].account,
                              recipient_class |-> call[p].group.group_class,
                              recipient |-> KeyOfCluster(call[p].participation.group_key,
                                                call[p].participation.cluster_id),
                              message_type |-> "player_left"]}
                    ELSE queue' = queue]_vars

\* an account of cluster 1 of a group has joined and has left, each with its
\* notification
C20_Witness ==
    /\ \E n \in queue : n.message_type = "player_joined" /\ n.recipient = <<"g", "-", "1">>
    /\ \E n \in queue : n.message_type = "player_left" /\ n.recipient = <<"g", "-", "1">>
    /\ \E p \in Procs : outcome[p] = "leave_group: ok"


(***************************************************************************)
(* Claims about the release of the cluster slot in leave_group.            *)
(***************************************************************************)
\* the participation row that the leave_group of p found is in the table
RowOfLeave(rows, p) ==
    \E r \in rows : /\ r.gamespace_id = call[p].gamespace
                    /\ Str(r.participation_id) = call[p].participation.participation_id

\* C21: a leave_group is at its leave_cluster only with the row it found
\* deleted and a cluster id that is not 0; whether the release succeeds or
\* fails, the call goes on to its notification with no error and the rows as
\* they are, and there it queues the player_left message when notify is given
\* and returns with success, unless the queue itself fails.
C21_ReleaseFailureSwallowed ==
    /\ [](\A p \in Procs :
            /\ pc[p] = "lg_cluster" =>
                    /\ call[p].participation.cluster_id # 0
                    /\ ~RowOfLeave(participants, p)
            /\ outcome[p] # "leave_group: ClusterError")
    /\ [][\A p \in Procs :
            /\ (pc[p] = "lg_cluster" /\ pc'[p] # "lg_cluster") =>
                    /\ pc'[p] = "lg_notify"
                    /\ outcome'[p] = "running"
                    /\ call'[p] = call[p]
                    /\ participants' = participants
            /\ (pc[p] = "lg_notify" /\ pc'[p] = "idle"
                    /\ outcome'[p] # "leave_group: MessageQueueError") =>
                    /\ outcome'[p] = "leave_group: ok"
                    /\ ~RowOfLeave(participants', p)
                    /\ call[p].notify # "none" =>
                        \E n \in queue' : /\ n.message_type = "player_left"
                                          /\ n.sender = call[p].account
                                          /\ n.gamespace = call[p].gamespace]_vars

\* the only participation ever made was left with success and announced,
\* and the slot of its account is still held: the release had failed
C21_Witness ==
    \E p \in Procs :
        /\ outcome[p] = "leave_group: ok"
        /\ \A q \in Procs \ {p} : outcome[q] = "none"
        /\ nextParticipationId = 2
        /\ participants = {}
        /\ \E n \in queue : /\ n.message_type = "player_left"
                            /\ \E s \in clusterAccounts : s.account = n.sender


(***************************************************************************)
(* Claims about cluster slots and participation rows.                      *)
(***************************************************************************)
SlotOfRow(s, r) ==
    /\ r.gamespace_id = s.gamespace_id
    /\ r.group_id = s.group_id
    /\ r.participation_account = s.account
    /\ r.cluster_id = s.cluster_id

\* C22: whenever no call is running, an account holds a slot in a cluster of
\* a group exactly if it has a participation row in that group with that
\* cluster id, which is not 0.
C22_SlotsMatchRows ==
    Quiescent =>
        /\ \A s \in clusterAccounts : \E r \in participants : SlotOfRow(s, r)
        /\ \A r \in participants :
                r.cluster_id # 0 => \E s \in clusterAccounts : SlotOfRow(s, r)


(***************************************************************************)
(* Groups that are renamed while accounts join them.                       *)
(***************************************************************************)
EnvRename ==
    \/ \E gs \in Gamespaces, key \in IdentityKeys :
            NewGroup(gs, CLASS_GROUP, key, FALSE, 1)
    \/ \E gs \in Gamespaces, id \in 1..MaxGroups, key \in IdentityKeys :
            UpdateGroup(gs, id, CLASS_GROUP, key, 1)

ProcRename(p) ==
    \/ \E gs \in Gamespaces, g \in HeldGroups, a \in Accounts :
            JoinCall(p, gs, g, a, "member", "none")
    \/ JoinInsert(p)
    \/ JoinBind(p)
    \/ JoinNotify(p)

NextRename == EnvRename \/ \E p \in Procs : ProcRename(p)

SpecRename == Init /\ [][NextRename]_vars

\* C23: the group_class and group_key of every participation row are those
\* of the group row with its group_id.
C23_RowsCarryGroupKey ==
    \A r \in participants : \A g \in groups :
        (g.gamespace_id = r.gamespace_id /\ g.group_id = r.group_id)
            => (r.group_class = g.group_class /\ r.group_key = g.group_key)


(***************************************************************************)
(* Claims about failing and interleaved joins and leaves.                  *)
(***************************************************************************)
\* the participation row that the join_group of p inserted is in the table
RowOfJoin(rows, p) ==
    \E r \in rows : /\ r.group_id = call[p].group.group_id
                    /\ r.participation_account = call[p].account
                    /\ Str(r.participation_id) = call[p].participation.participation_id

\* C24: a join_group that ends with an error has added no participation row
\* (it failed before or at its INSERT), or the row it added is gone when it
\* ends (it failed after its INSERT).
C24_FailedJoinLeavesNoRow ==
    [][\A p \in Procs :
        /\ (pc[p] \in {"jg_cluster", "jg_insert"} /\ pc'[p] = "idle")
                => participants' = participants
        /\ (pc[p] \in {"jg_bind", "jg_notify"} /\ pc'[p] = "idle"
                /\ outcome'[p] # "join_group: ok")
                => ~RowOfJoin(participants', p)]_vars


SameParticipation(p, q) ==
    /\ call[p].op = "leave_group" /\ call[q].op = "leave_group"
    /\ call[p].participation = call[q].participation

\* C25: no two leave_group calls are past their DELETE, at the release of the
\* slot or at the notification, for the same participation; and a
\* leave_group releases the slot of its account only while the account has
\* no participation row in the group.
C25_ReleasedAndAnnouncedOnce ==
    /\ [](\A p, q \in Procs :
            (p # q /\ pc[p] \in {"lg_cluster", "lg_notify"}
                   /\ pc[q] \in {"lg_cluster", "lg_notify"})
                => ~SameParticipation(p, q))
    /\ [][\A p \in Procs :
            (pc[p] = "lg_cluster" /\ clusterAccounts' # clusterAccounts)
                => find_group_participant(participants, call[p].gamespace,
                        call[p].group.group_id, call[p].account) = {}]_vars

====
